---- MODULE Spec2Model ----
(***************************************************************************)
(* Model of functions.py of PatentsView-downloader: the paginated fetch    *)
(* (patentsview_query, get_patentsview_data) and the transformation of the *)
(* fetched records into tables (patentsvsiew_query_to_dfs).                *)
(*                                                                         *)
(* A Python dict is a function whose DOMAIN is the set of its keys; a      *)
(* missing key is a key outside the DOMAIN.  A pandas DataFrame is a       *)
(* record [columns, rows]: columns is the set of column names (the code    *)
(* only tests membership in df.columns and selects by name, so the order   *)
(* of the columns is not kept) and rows is the sequence of rows in index   *)
(* order, each a function from the columns that hold a value to that       *)
(* value: a cell that holds NaN is a column outside the DOMAIN of the row. *)
(***************************************************************************)
EXTENDS Integers, Sequences, FiniteSets, TLC

\* ------------------------------------------------------------------ bounds
MaxCount == 3          \* largest small total the server holds
MaxNested == 2         \* patents 1..MaxNested have their shape drawn
MaxPerPage == 2        \* per_page is drawn from 1..MaxPerPage and the default
SmallServerMax == 2    \* a server maximum page size below the default per_page

\* ------------------------------------------------------- program constants
Ceiling == 100000          \* assert count < 100000
ProbePerPage == 25         \* per_page of the initial query
DefaultPerPage == 10000    \* per_page=10000 of patentsvsiew_query_to_dfs
StatusOK == 200            \* request.status_code == 200

\* line 130: the columns that are not columns of the 'patent' table
NestedFields == <<"inventors", "rawinventors", "assignees", "applications",
                  "IPCs", "application_citations", "cited_patents",
                  "citedby_patents", "uspcs", "cpcs", "nbers", "wipos",
                  "gov_interests", "lawyers", "examiners", "foreign_priority",
                  "pct_data">>
\* line 131: the one-to-many fields, in the order the loop visits them
ExplodeFields == <<"gov_interests", "inventors", "rawinventors", "assignees",
                   "IPCs", "application_citations", "cited_patents",
                   "citedby_patents", "uspcs", "cpcs", "wipos", "lawyers",
                   "examiners", "foreign_priority", "pct_data">>
\* line 132: the one-to-one fields
OtherFields == <<"applications", "nbers">>

Range(s) == {s[i] : i \in 1..Len(s)}
Min(a, b) == IF a < b THEN a ELSE b
\* [col for col in lst if col in cols]
Filter(lst, cols) == SelectSeq(lst, LAMBDA c : c \in cols)
\* the dict d without the keys outside keys
Restrict(d, keys) == [k \in (DOMAIN d) \cap keys |-> d[k]]

\* ------------------------------------------------------------ environment
\* What the server holds for one patent: the number of inventors and of cpcs
\* (-1: the patent has no such key at all, 0: an empty list) and whether it
\* has an application.
Shapes ==
  { [inventors |-> -1, cpcs |-> -1, applications |-> FALSE],
    [inventors |->  2, cpcs |->  1, applications |-> FALSE],
    [inventors |->  0, cpcs |->  2, applications |-> FALSE],
    [inventors |->  1, cpcs |-> -1, applications |-> TRUE] }
PlainShape == [inventors |-> -1, cpcs |-> -1, applications |-> FALSE]

\* The field lists a caller passes (Python lists).
FieldLists ==
  { <<"patent_number", "patent_title", "inventors">>,
    <<"patent_title", "inventors", "cpcs">>,
    <<"patent_number", "inventors", "applications">>,
    <<"patent_title">> }

Counts == (0..MaxCount) \cup {Ceiling - 1, Ceiling, Ceiling + 1, 150000}
PerPages == (1..MaxPerPage) \cup {DefaultPerPage}
ServerMaxes == {SmallServerMax, DefaultPerPage}

VARIABLES
  fields,        \* the caller's field list (the entry point appends to it)
  caller_fields, \* history: the field list as the caller passed it
  per_page,      \* argument per_page
  force_retry,   \* argument force_retry
  total,         \* server: number of patents in the date range
  shapes,        \* server: shape of patents 1..Len(shapes), plain beyond
  server_max,    \* server: the most records it puts on one page
  pc,            \* position in the program
  caller,        \* patentsview_query: the call site that called it
  payload,       \* patentsview_query: the payload of the current call
  request,       \* patentsview_query: the response of requests.post
  query,         \* the dict patentsview_query returned to its caller
  count,         \* get_patentsview_data: count
  data,          \* get_patentsview_data: data['patents']
  no_patents,    \* get_patentsview_data: no_patents
  page,          \* get_patentsview_data: page
  dfs,           \* patentsvsiew_query_to_dfs: the returned mapping
  error,         \* the exception that ended the call, "none" if none
  calls,         \* history: the number of calls of patentsview_query
  httpLog        \* history: the HTTP requests issued, oldest first

vars == <<fields, caller_fields, per_page, force_retry, total, shapes,
          server_max, pc, caller, payload, request, query, count, data,
          no_patents, page, dfs, error, calls, httpLog>>

env == <<caller_fields, per_page, force_retry, total, shapes, server_max>>

\* ------------------------------------------------------------- the server
ShapeOf(i) == IF i <= Len(shapes) THEN shapes[i] ELSE PlainShape

Inventor(i, k) == [inventor_key_id |-> 10 * i + k, inventor_id |-> 100 * i + k]
Cpc(i, k) == [cpc_group_id |-> 1000 * i + k]
Application(i) == [app_id |-> i, app_type |-> "utility"]

\* The full record of patent i on the server.
ServerPatent(i) ==
  LET s == ShapeOf(i)
      base == [patent_number |-> i, patent_title |-> "title"]
      inv  == IF s.inventors >= 0
              THEN "inventors" :> [k \in 1..s.inventors |-> Inventor(i, k)]
              ELSE <<>>
      cpc  == IF s.cpcs >= 0
              THEN "cpcs" :> [k \in 1..s.cpcs |-> Cpc(i, k)]
              ELSE <<>>
      app  == IF s.applications
              THEN "applications" :> <<Application(i)>>
              ELSE <<>>
  IN  base @@ inv @@ cpc @@ app

\* The JSON body of a success response to payload p: page p.page of the
\* matching patents, at most server_max of them, with the requested fields.
ServerBody(p) ==
  LET size == Min(p.per_page, server_max)
      lo   == (p.page - 1) * size
      hi   == Min(p.page * size, total)
  IN  [total_patent_count |-> total,
       patents |-> [j \in 1..(IF hi > lo THEN hi - lo ELSE 0) |->
                      Restrict(ServerPatent(lo + j), Range(p.f))]]

BodyKeys == {"total_patent_count", "patents"}

\* the status codes the server answers with: success and a server error
StatusCodes == {StatusOK, 500}

\* -------------------------------------------------------------------- Init
Init ==
  /\ fields \in FieldLists
  /\ caller_fields = fields
  /\ per_page \in PerPages
  /\ force_retry \in BOOLEAN
  /\ total \in Counts
  /\ shapes \in IF total <= MaxCount
                THEN [1..Min(total, MaxNested) -> Shapes]
                ELSE {<<>>}
  /\ server_max \in ServerMaxes
  \* a large total is fetched with the default per_page from the server with
  \* the small page maximum, which keeps the accumulator short
  /\ total > MaxCount => /\ per_page = DefaultPerPage
                         /\ fields = <<"patent_title">>
                         /\ server_max = SmallServerMax
  /\ pc = "start"
  /\ caller = "none"
  /\ payload = <<>>
  /\ request = <<>>
  /\ query = <<>>
  /\ count = 0
  /\ data = <<>>
  /\ no_patents = 0
  /\ page = 0
  /\ dfs = <<>>
  /\ error = "none"
  /\ calls = 0
  /\ httpLog = <<>>

\* ------------------------------------------------------- patentsview_query
\* lines 25-27: the payload of a call
Payload(f, pg, pp) == [f |-> f, page |-> pg, per_page |-> pp]

\* line 32: one requests.post and its response.  The server answers with a
\* success status and a body (possibly lacking a key), or with an error.
Post ==
  /\ pc = "post"
  /\ \E status \in StatusCodes, missing \in SUBSET BodyKeys :
       /\ Cardinality(missing) <= 1
       /\ status # StatusOK => missing = {}
       /\ request' = [status_code |-> status,
                      json |-> IF status = StatusOK
                               THEN Restrict(ServerBody(payload), BodyKeys \ missing)
                               ELSE <<>>]
       /\ httpLog' = Append(httpLog, [call |-> calls, caller |-> caller,
                                      payload |-> payload, status |-> status,
                                      json |-> request'.json])
  /\ pc' = "response"
  /\ UNCHANGED <<fields, env, caller, payload, query, count, data,
                 no_patents, page, dfs, error, calls>>

\* a success response that leaves retry set: the request is posted again
ReturnJsonRetry ==
  /\ pc = "response"
  /\ request.status_code = StatusOK
  /\ pc' = "post"
  /\ UNCHANGED <<fields, env, caller, payload, request, query, count, data,
                 no_patents, page, dfs, error, calls, httpLog>>

\* lines 33-34, 52: a success response ends the loop and its JSON is returned
ReturnJson ==
  /\ pc = "response"
  /\ request.status_code = StatusOK
  /\ query' = request.json
  /\ pc' = caller
  /\ UNCHANGED <<fields, env, caller, payload, request, count, data,
                 no_patents, page, dfs, error, calls, httpLog>>

\* lines 35-36: a non-success response reaches the print of line 36, which
\* reads the name r; no r is bound in the function or the module, so the
\* print raises NameError before force_retry is looked at.  Lines 37-51 (the
\* sleep, the prompt and the KeyboardInterrupt) are never reached.
RaiseNameError ==
  /\ pc = "response"
  /\ request.status_code # StatusOK
  /\ error' = "NameError"
  /\ pc' = "raised"
  /\ UNCHANGED <<fields, env, caller, payload, request, query, count, data,
                 no_patents, page, dfs, calls, httpLog>>

\* ---------------------------------------------------- get_patentsview_data
\* the initial query made with the caller's fields and per_page
CallInitialQueryCallerArgs ==
  /\ pc = "start"
  /\ fields' = IF "patent_number" \in Range(fields) THEN fields
               ELSE Append(fields, "patent_number")
  /\ payload' = Payload(fields', 1, per_page)
  /\ caller' = "initial_query"
  /\ calls' = calls + 1
  /\ pc' = "post"
  /\ UNCHANGED <<env, request, query, count, data, no_patents, page, dfs,
                 error, httpLog>>

\* the entry point appending patent_number whether or not it is listed
CallInitialQueryAlwaysAppend ==
  /\ pc = "start"
  /\ fields' = Append(fields, "patent_number")
  /\ payload' = Payload(<<"patent_number">>, 1, ProbePerPage)
  /\ caller' = "initial_query"
  /\ calls' = calls + 1
  /\ pc' = "post"
  /\ UNCHANGED <<env, request, query, count, data, no_patents, page, dfs,
                 error, httpLog>>

\* lines 116-126 and 72-78: the entry point appends patent_number when it is
\* absent, calls get_patentsview_data, which calls patentsview_query for the
\* initial query.
CallInitialQuery ==
  /\ pc = "start"
  /\ fields' = IF "patent_number" \in Range(fields) THEN fields
               ELSE Append(fields, "patent_number")
  /\ payload' = Payload(<<"patent_number">>, 1, ProbePerPage)
  /\ caller' = "initial_query"
  /\ calls' = calls + 1
  /\ pc' = "post"
  /\ UNCHANGED <<env, request, query, count, data, no_patents, page, dfs,
                 error, httpLog>>

\* the assertion with the ceiling itself let through
CountAllowedInclusive(c) == c <= Ceiling

\* line 80: the assertion on the count
CountAllowed(c) == c < Ceiling

\* lines 79-85: the count is read and accepted, the accumulator is set up
InitialQueryOk ==
  /\ pc = "initial_query"
  /\ "total_patent_count" \in DOMAIN query
  /\ CountAllowed(query["total_patent_count"])
  /\ count' = query["total_patent_count"]
  /\ data' = <<>>
  /\ no_patents' = 0
  /\ page' = 1
  /\ pc' = "while"
  /\ UNCHANGED <<fields, env, caller, payload, request, query, dfs, error,
                 calls, httpLog>>

\* line 79: initial_query['total_patent_count'] on a body without the key
InitialQueryKeyError ==
  /\ pc = "initial_query"
  /\ "total_patent_count" \notin DOMAIN query
  /\ error' = "KeyError"
  /\ pc' = "raised"
  /\ UNCHANGED <<fields, env, caller, payload, request, query, count, data,
                 no_patents, page, dfs, calls, httpLog>>

\* line 80: the assertion fails
InitialQueryTooLarge ==
  /\ pc = "initial_query"
  /\ "total_patent_count" \in DOMAIN query
  /\ ~CountAllowed(query["total_patent_count"])
  /\ count' = query["total_patent_count"]
  /\ error' = "AssertionError"
  /\ pc' = "raised"
  /\ UNCHANGED <<fields, env, caller, payload, request, query, data,
                 no_patents, page, dfs, calls, httpLog>>

\* the loop condition asking for one page more when the pages are all full
MorePagesInclusive == no_patents <= count

\* line 86: the loop condition
MorePages == no_patents < count

\* lines 86-93: the loop goes on and calls patentsview_query for the page
CallPageQuery ==
  /\ pc = "while"
  /\ MorePages
  /\ payload' = Payload(fields, page, per_page)
  /\ caller' = "page_query"
  /\ calls' = calls + 1
  /\ pc' = "post"
  /\ UNCHANGED <<fields, env, request, query, count, data, no_patents, page,
                 dfs, error, httpLog>>

\* the page is appended and the page counter is left where it was
AppendPageSamePage ==
  /\ pc = "page_query"
  /\ "patents" \in DOMAIN query
  /\ data' = data \o query["patents"]
  /\ no_patents' = no_patents + per_page
  /\ pc' = "while"
  /\ UNCHANGED <<fields, env, caller, payload, request, query, count, page,
                 dfs, error, calls, httpLog>>

\* the page is put in front of the accumulator
AppendPageInFront ==
  /\ pc = "page_query"
  /\ "patents" \in DOMAIN query
  /\ data' = query["patents"] \o data
  /\ no_patents' = no_patents + per_page
  /\ page' = page + 1
  /\ pc' = "while"
  /\ UNCHANGED <<fields, env, caller, payload, request, query, count, dfs,
                 error, calls, httpLog>>

\* lines 94-96: the page is appended and the counters advance
AppendPage ==
  /\ pc = "page_query"
  /\ "patents" \in DOMAIN query
  /\ data' = data \o query["patents"]
  /\ no_patents' = no_patents + per_page
  /\ page' = page + 1
  /\ pc' = "while"
  /\ UNCHANGED <<fields, env, caller, payload, request, query, count, dfs,
                 error, calls, httpLog>>

\* query.get('patents', []): a body without the key counts as an empty page
PageKeyErrorSwallowed ==
  /\ pc = "page_query"
  /\ "patents" \notin DOMAIN query
  /\ no_patents' = no_patents + per_page
  /\ page' = page + 1
  /\ pc' = "while"
  /\ UNCHANGED <<fields, env, caller, payload, request, query, count, data,
                 dfs, error, calls, httpLog>>

\* line 94: query['patents'] on a body without the key
PageKeyError ==
  /\ pc = "page_query"
  /\ "patents" \notin DOMAIN query
  /\ error' = "KeyError"
  /\ pc' = "raised"
  /\ UNCHANGED <<fields, env, caller, payload, request, query, count, data,
                 no_patents, page, dfs, calls, httpLog>>

\* lines 86, 97: the loop ends and data is returned to the entry point
ReturnData ==
  /\ pc = "while"
  /\ ~MorePages
  /\ pc' = "data"
  /\ UNCHANGED <<fields, env, caller, payload, request, query, count, data,
                 no_patents, page, dfs, error, calls, httpLog>>

\* ------------------------------------------------ patentsvsiew_query_to_dfs
\* pd.DataFrame(list of dicts): a column for every key, a row for every dict
DataFrame(records) ==
  [columns |-> UNION {DOMAIN records[i] : i \in 1..Len(records)},
   rows |-> records]

\* df[cols]: the columns cols of df, the rows unchanged in number and order
Select(df, cols) ==
  [columns |-> cols,
   rows |-> [i \in 1..Len(df.rows) |-> Restrict(df.rows[i], cols)]]

\* explode keeping the first element of a list only
ExplodeRowFirst(r, cat) ==
  IF cat \in DOMAIN r /\ Len(r[cat]) > 0
  THEN <<[r EXCEPT ![cat] = r[cat][1]]>>
  ELSE <<Restrict(r, (DOMAIN r) \ {cat})>>

\* explode giving no row to an empty list or a NaN
ExplodeRowDropNaN(r, cat) ==
  IF cat \in DOMAIN r /\ Len(r[cat]) > 0
  THEN [k \in 1..Len(r[cat]) |-> [r EXCEPT ![cat] = r[cat][k]]]
  ELSE <<>>

\* What DataFrame.explode(cat) makes of one row: a row for every element of
\* a non-empty list, and a single row holding NaN for an empty list or for a
\* cell that already holds NaN.
ExplodeRow(r, cat) ==
  IF cat \in DOMAIN r /\ Len(r[cat]) > 0
  THEN [k \in 1..Len(r[cat]) |-> [r EXCEPT ![cat] = r[cat][k]]]
  ELSE <<Restrict(r, (DOMAIN r) \ {cat})>>

RECURSIVE ExplodeRows(_, _)
ExplodeRows(rows, cat) ==
  IF rows = <<>> THEN <<>>
  ELSE ExplodeRow(Head(rows), cat) \o ExplodeRows(Tail(rows), cat)

\* df.explode(cat).reset_index(drop=True)
Explode(df, cat) == [columns |-> df.columns, rows |-> ExplodeRows(df.rows, cat)]

\* pd.json_normalize(df[cat]) where it returns: a row for every element, the
\* keys of the dicts as columns, an element that is NaN giving an empty row
JsonNormalize(df, cat) ==
  DataFrame([i \in 1..Len(df.rows) |->
               IF cat \in DOMAIN df.rows[i] THEN df.rows[i][cat] ELSE <<>>])

\* left.join(right): the rows are joined by index
Join(left, right) ==
  [columns |-> left.columns \cup right.columns,
   rows |-> [i \in 1..Len(left.rows) |-> left.rows[i] @@ right.rows[i]]]

\* df.drop(columns=c), c being a column of df
Drop(df, c) == Select(df, df.columns \ {c})

\* line 144: '{}_key_id'.format(cat[:-1])
KeyIdColumn(cat) ==
  IF cat = "inventors" THEN "inventor_key_id" ELSE "assignee_key_id"

\* df[[cat]] in place of df[['patent_number', cat]]
ExplodedTableNoKey(df, cat) ==
  LET exploded == Explode(Select(df, {cat}), cat)
  IN  Drop(Join(exploded, JsonNormalize(exploded, cat)), cat)

\* lines 140-142: the table of one one-to-many field, before line 143
ExplodedTable(df, cat) ==
  LET exploded == Explode(Select(df, {"patent_number", cat}), cat)
  IN  Drop(Join(exploded, JsonNormalize(exploded, cat)), cat)

\* What pd.json_normalize does with an element that is NaN depends on the
\* pandas release: the releases that read .values() of every element raise
\* AttributeError, the later ones give the element an empty row.
JsonNormalizeNaN == {"AttributeError", "row"}

\* lines 140-144: the exception one pass of the second loop raises, if any,
\* nan being what json_normalize does with NaN.  The drop of line 144 raises
\* KeyError when the key column is not there.
ExplodeError(df, cat, nan) ==
  LET exploded == Explode(Select(df, {"patent_number", cat}), cat)
  IN  IF /\ nan = "AttributeError"
         /\ \E i \in 1..Len(exploded.rows) : cat \notin DOMAIN exploded.rows[i]
      THEN "AttributeError"
      ELSE IF /\ cat \in {"inventors", "assignees"}
              /\ KeyIdColumn(cat) \notin ExplodedTable(df, cat).columns
      THEN "KeyError"
      ELSE "none"

\* lines 140-144: the table stored under dfs[cat]
ChildTable(df, cat) ==
  IF cat \in {"inventors", "assignees"}
  THEN Drop(ExplodedTable(df, cat), KeyIdColumn(cat))
  ELSE ExplodedTable(df, cat)

\* line 131
ExplodeList(df) == Filter(ExplodeFields, df.columns)
\* line 132
OtherList(df) == Filter(OtherFields, df.columns)
\* the parent table taken from the frame exploded on inventors
PatentTableExploded(df) ==
  Select(Explode(df, "inventors"), df.columns \ Range(NestedFields))

\* lines 130, 133: dfs['patent']
PatentTable(df) == Select(df, df.columns \ Range(NestedFields))

\* lines 134-144: the exception the two loops raise, if any.  The first pass
\* of the first loop calls DataFrame.explode() without its required argument
\* column, which raises TypeError.
ToDfsError(df, nan) ==
  IF OtherList(df) # <<>> THEN "TypeError"
  ELSE LET failing == SelectSeq(ExplodeList(df),
                                LAMBDA cat : ExplodeError(df, cat, nan) # "none")
       IN  IF failing # <<>> THEN ExplodeError(df, Head(failing), nan)
           ELSE "none"

\* lines 133-145: the mapping returned when nothing is raised
ToDfs(df) ==
  [cat \in {"patent"} \cup Range(ExplodeList(df)) |->
     IF cat = "patent" THEN PatentTable(df) ELSE ChildTable(df, cat)]

\* lines 129-145: the tables are built and returned
ReturnDfs ==
  /\ pc = "data"
  /\ \E nan \in JsonNormalizeNaN : ToDfsError(DataFrame(data), nan) = "none"
  /\ dfs' = ToDfs(DataFrame(data))
  /\ pc' = "returned"
  /\ UNCHANGED <<fields, env, caller, payload, request, query, count, data,
                 no_patents, page, error, calls, httpLog>>

\* lines 129-144: building the tables raises
RaiseInDfs ==
  /\ pc = "data"
  /\ \E nan \in JsonNormalizeNaN :
       /\ ToDfsError(DataFrame(data), nan) # "none"
       /\ error' = ToDfsError(DataFrame(data), nan)
  /\ pc' = "raised"
  /\ UNCHANGED <<fields, env, caller, payload, request, query, count, data,
                 no_patents, page, dfs, calls, httpLog>>

Next ==
  \/ CallInitialQuery
  \/ Post
  \/ ReturnJson
  \/ RaiseNameError
  \/ InitialQueryOk
  \/ InitialQueryKeyError
  \/ InitialQueryTooLarge
  \/ CallPageQuery
  \/ AppendPage
  \/ PageKeyError
  \/ ReturnData
  \/ ReturnDfs
  \/ RaiseInDfs

Spec == Init /\ [][Next]_vars

TypeOK ==
  /\ pc \in {"start", "post", "response", "initial_query", "while",
             "page_query", "data", "returned", "raised"}
  /\ error \in {"none", "NameError", "KeyError", "AssertionError",
                "TypeError", "AttributeError"}
  /\ (pc = "raised") = (error # "none")

\* ------------------------------------------------------------ claims C1-C6
Ceil(a, b) == (a + b - 1) \div b

\* the page queries issued so far
PageQueries == {i \in 1..Len(httpLog) : httpLog[i].caller = "page_query"}
\* the HTTP requests issued by call c of patentsview_query
RequestsOfCall(c) == {i \in 1..Len(httpLog) : httpLog[i].call = c}
LastRequest == httpLog[Len(httpLog)]

PatentNumbers(records) ==
  [i \in 1..Len(records) |-> records[i]["patent_number"]]

\* records (k-1)*P+1 .. min(k*P, C)
ExpectedPage(k) ==
  [j \in 1..(Min(k * per_page, total) - (k - 1) * per_page) |->
     (k - 1) * per_page + j]

\* the server answers each page k of the fetch with those records
ServerAnswersPages ==
  \A k \in 1..Ceil(total, per_page) :
    PatentNumbers(ServerBody(Payload(fields, k, per_page)).patents)
      = ExpectedPage(k)

\* C1: when get_patentsview_data returns and the server answers page k with
\* records (k-1)*P+1 .. min(k*P, C), the accumulator holds exactly the C
\* probed records and exactly ceil(C / P) page queries were issued (none
\* when C = 0).
C1_ExactFetch ==
  (pc = "data" /\ ServerAnswersPages) =>
    /\ count = total
    /\ count < Ceiling
    /\ Len(data) = count
    /\ PatentNumbers(data) = [i \in 1..count |-> i]
    /\ Cardinality(PageQueries) = Ceil(count, per_page)
    /\ count = 0 => data = <<>> /\ PageQueries = {}

\* three records fetched in two pages, the last one short
C1_Witness ==
  /\ pc = "data"
  /\ ServerAnswersPages
  /\ count = 3
  /\ per_page = 2
  /\ Len(data) = 3
  /\ Cardinality(PageQueries) = 2

\* the initial query returned a count at or above the ceiling
ProbeTooLarge ==
  /\ "total_patent_count" \in DOMAIN query
  /\ query["total_patent_count"] >= Ceiling

\* C2: once the initial query has returned a count >= 100000, the call fails
\* with the assertion error, the initial query is the only HTTP request of
\* the call, and neither an accumulator nor a mapping is returned.
C2_TooLargeFailsFast ==
  ProbeTooLarge =>
    /\ Len(httpLog) = 1
    /\ PageQueries = {}
    /\ data = <<>>
    /\ dfs = <<>>
    /\ \/ pc = "initial_query"
       \/ pc = "raised" /\ error = "AssertionError"

\* the scenario of a probed count of 150000
C2_Witness ==
  /\ pc = "raised"
  /\ error = "AssertionError"
  /\ count = 150000
  /\ Len(httpLog) = 1

\* C3: with force_retry set, a non-success response raises no error to the
\* caller and the call goes on with the same request.
C3_ForcedRetryGoesOn ==
  [][(force_retry /\ pc = "response" /\ request.status_code # StatusOK) =>
       (error' = "none" /\ pc' # "raised" /\ payload' = payload)]_vars

\* C4: without force_retry, a fetch that ends on a non-success response ends
\* with the user-aborted condition KeyboardInterrupt, raised on the
\* operator's answer 'n'.
C4_AbortIsKeyboardInterrupt ==
  (~force_retry /\ pc = "raised" /\ Len(httpLog) > 0
     /\ LastRequest.status # StatusOK) =>
    error = "KeyboardInterrupt"

\* C5: a success response ends the retry loop of the call: the next step
\* returns the body of that response to the call site, no further HTTP
\* request is issued by the call, and the call has issued exactly one.
C5_SuccessEndsLoop ==
  [][(pc = "response" /\ request.status_code = StatusOK) =>
       /\ pc' = caller
       /\ query' = request.json
       /\ httpLog' = httpLog
       /\ Cardinality(RequestsOfCall(calls)) = 1]_vars

\* a page query answered with success, without force_retry
C5_Witness ==
  /\ pc = "page_query"
  /\ ~force_retry
  /\ LastRequest.status = StatusOK
  /\ query = request.json
  /\ Cardinality(RequestsOfCall(calls)) = 1

\* the body just returned lacks the key its call site reads
MalformedBody ==
  \/ pc = "initial_query" /\ "total_patent_count" \notin DOMAIN query
  \/ pc = "page_query" /\ "patents" \notin DOMAIN query

\* C6: a success response whose body lacks the expected key ends the call
\* with an error that reaches the caller: the request is not issued again,
\* no later page is requested and nothing is returned.
C6_MalformedIsFatal ==
  [][/\ MalformedBody =>
          /\ pc' = "raised"
          /\ error' = "KeyError"
          /\ httpLog' = httpLog
          /\ calls' = calls
          /\ dfs' = <<>>
     /\ pc # "raised"]_vars

\* a page body without 'patents' has ended the fetch
C6_Witness ==
  /\ pc = "raised"
  /\ error = "KeyError"
  /\ caller = "page_query"
  /\ "patents" \notin DOMAIN query
  /\ LastRequest.status = StatusOK

\* ----------------------------------------------------------- claims C7-C10
\* the child tables of the returned mapping
ChildTables == (DOMAIN dfs) \ {"patent"}

\* the rows of child table F tagged with patent number pn, in table order
RowsOf(F, pn) ==
  SelectSeq(dfs[F].rows,
            LAMBDA r : "patent_number" \in DOMAIN r /\ r["patent_number"] = pn)

\* row r holds the values of the nested element e in every column it has
\* besides patent_number
RowOfElement(r, e) ==
  /\ (DOMAIN r) \ {"patent_number"} # {}
  /\ (DOMAIN r) \ {"patent_number"} \subseteq DOMAIN e
  /\ \A c \in (DOMAIN r) \ {"patent_number"} : r[c] = e[c]

\* record i of the accumulator has a non-empty list under F
HasElements(i, F) == F \in DOMAIN data[i] /\ Len(data[i][F]) > 0

\* C7: in the returned mapping, a patent whose one-to-many field F is a
\* non-empty sequence of n nested objects has exactly n rows with its
\* patent_number in F's child table, the k-th of them made of the k-th
\* element of the sequence.
C7_OneRowPerElement ==
  pc = "returned" =>
    \A i \in 1..Len(data) :
      \A F \in Range(ExplodeFields) :
        HasElements(i, F) =>
          /\ F \in ChildTables
          /\ Len(RowsOf(F, data[i]["patent_number"])) = Len(data[i][F])
          /\ \A k \in 1..Len(data[i][F]) :
               RowOfElement(RowsOf(F, data[i]["patent_number"])[k], data[i][F][k])

\* the scenario: fields patent_number, patent_title, inventors and one
\* patent with 2 inventors give a parent table of 1 row and 2 inventor rows
C7_Witness ==
  /\ pc = "returned"
  /\ fields = <<"patent_number", "patent_title", "inventors">>
  /\ Len(data) = 1
  /\ HasElements(1, "inventors")
  /\ Len(data[1]["inventors"]) = 2
  /\ Len(dfs["patent"].rows) = 1
  /\ dfs["patent"].rows[1]["patent_number"] = data[1]["patent_number"]
  /\ Len(dfs["inventors"].rows) = 2
  /\ Len(RowsOf("inventors", data[1]["patent_number"])) = 2

\* C8 as claimed: the rows of F's child table tagged with a patent are as
\* many as the elements of its nested sequence, none when it lacks F.
C8_RowsEqualLength ==
  pc = "returned" =>
    \A F \in ChildTables :
      \A i \in 1..Len(data) :
        Len(RowsOf(F, data[i]["patent_number"]))
          = IF F \in DOMAIN data[i] THEN Len(data[i][F]) ELSE 0

\* C8 amended: F has a child table exactly when some fetched record has the
\* key F; in it a patent with a non-empty sequence has as many rows as the
\* sequence has elements, and a patent that lacks F or has an empty sequence
\* has one row, which holds its patent_number and NaN in every other column.
C8_RowsEqualLengthOrNullRow ==
  pc = "returned" =>
    /\ ChildTables =
         {F \in Range(ExplodeFields) : \E i \in 1..Len(data) : F \in DOMAIN data[i]}
    /\ \A F \in ChildTables :
         \A i \in 1..Len(data) :
           LET rows == RowsOf(F, data[i]["patent_number"])
           IN  IF HasElements(i, F)
               THEN Len(rows) = Len(data[i][F])
               ELSE Len(rows) = 1 /\ DOMAIN rows[1] = {"patent_number"}

\* a returned inventors table with a row of nulls for a patent that has no
\* key inventors
C8_Witness ==
  /\ pc = "returned"
  /\ "inventors" \in ChildTables
  /\ \E i \in 1..Len(data) :
       /\ "inventors" \notin DOMAIN data[i]
       /\ Len(RowsOf("inventors", data[i]["patent_number"])) = 1
  /\ \E i \in 1..Len(data) : HasElements(i, "inventors")

\* C9: every row of every returned child table holds a patent_number that
\* occurs in the parent table, and a row made of a nested element holds the
\* patent_number of the record the element belongs to.
C9_ReferentialIntegrity ==
  pc = "returned" =>
    \A F \in ChildTables :
      \A j \in 1..Len(dfs[F].rows) :
        LET r == dfs[F].rows[j]
        IN  /\ "patent_number" \in DOMAIN r
            /\ \E q \in 1..Len(dfs["patent"].rows) :
                 /\ "patent_number" \in DOMAIN dfs["patent"].rows[q]
                 /\ dfs["patent"].rows[q]["patent_number"] = r["patent_number"]
            /\ (DOMAIN r) \ {"patent_number"} # {} =>
                 \E i \in 1..Len(data) :
                   /\ data[i]["patent_number"] = r["patent_number"]
                   /\ HasElements(i, F)
                   /\ \E k \in 1..Len(data[i][F]) : RowOfElement(r, data[i][F][k])

\* two child tables returned for three patents
C9_Witness ==
  /\ pc = "returned"
  /\ ChildTables = {"inventors", "cpcs"}
  /\ Len(data) = 3
  /\ Len(dfs["inventors"].rows) >= 3
  /\ Len(dfs["cpcs"].rows) >= 3

\* C10: the returned parent table has one row for every record of the
\* accumulator, in the order of the records.
C10_ParentRowPerRecord ==
  pc = "returned" =>
    /\ "patent" \in DOMAIN dfs
    /\ Len(dfs["patent"].rows) = Len(data)
    /\ \A i \in 1..Len(data) :
         dfs["patent"].rows[i]["patent_number"] = data[i]["patent_number"]

\* applications was requested and no record has it, one record has two
\* inventors, another none
C10_Witness ==
  /\ pc = "returned"
  /\ "applications" \in Range(fields)
  /\ Len(data) = 3
  /\ Len(dfs["patent"].rows) = 3
  /\ \E i \in 1..Len(data) : HasElements(i, "inventors") /\ Len(data[i]["inventors"]) = 2
  /\ \E i \in 1..Len(data) : "inventors" \notin DOMAIN data[i]

\* ---------------------------------------------------------- claims C11-C18
\* some fetched record has a one-to-one field
HasOneToOne ==
  \E i \in 1..Len(data) : (DOMAIN data[i]) \cap Range(OtherFields) # {}

\* get_patentsview_data has returned and the tables were built or building
\* them raised
TablesAttempted ==
  \/ pc = "returned"
  \/ /\ pc = "raised"
     /\ caller = "page_query"
     /\ LastRequest.status = StatusOK
     /\ "patents" \in DOMAIN query
     /\ ~MorePages

\* C11: when a fetched record has a one-to-one field (applications, nbers),
\* the entry point completes without error, the keys of the nested object
\* are columns of the parent row of the same patent, and the field has no
\* table of its own in the mapping.
C11_OneToOneMerged ==
  (TablesAttempted /\ HasOneToOne) =>
    /\ pc = "returned"
    /\ error = "none"
    /\ (DOMAIN dfs) \cap Range(OtherFields) = {}
    /\ \A i \in 1..Len(data) :
         \A F \in (DOMAIN data[i]) \cap Range(OtherFields) :
           \A k \in 1..Len(data[i][F]) :
             (DOMAIN data[i][F][k]) \ {"app_id"}
               \subseteq DOMAIN dfs["patent"].rows[i]

\* C12: at a normal return of get_patentsview_data the accumulator holds at
\* least as many records as the probed count, whatever the lengths of the
\* pages the server returned.
C12_AccumulatorReachesCount ==
  pc = "data" => Len(data) >= count

\* C13: the requests of a fetch are sequential and ordered.  The first is
\* the initial query and a request for it follows only a failed request for
\* it; the first page query asks for page 1 and follows a success response
\* to the initial query; every other page query follows a page query, for
\* the next page when that one got a success response and for the same page
\* when it failed.
C13_SequentialOrdered ==
  \A i \in 1..Len(httpLog) :
    LET r == httpLog[i]
    IN  IF i = 1
        THEN r.caller = "initial_query"
        ELSE LET prev == httpLog[i - 1]
             IN  IF r.caller = "initial_query"
                 THEN prev.caller = "initial_query" /\ prev.status # StatusOK
                 ELSE \/ /\ prev.caller = "initial_query"
                         /\ prev.status = StatusOK
                         /\ r.payload.page = 1
                      \/ /\ prev.caller = "page_query"
                         /\ prev.status = StatusOK
                         /\ r.payload.page = prev.payload.page + 1
                      \/ /\ prev.caller = "page_query"
                         /\ prev.status # StatusOK
                         /\ r.payload = prev.payload

\* the initial query and pages 1, 2 and 3, each answered with success
C13_Witness ==
  /\ pc = "data"
  /\ Len(httpLog) = 4
  /\ \A i \in 2..4 : httpLog[i].payload.page = i - 1 /\ httpLog[i].status = StatusOK

\* C14: without force_retry a non-success response is followed by the
\* prompt: the response itself raises no error, and the request is issued
\* again only once the operator has answered 'y'.
C14_PromptAfterFailure ==
  [][(~force_retry /\ pc = "response" /\ request.status_code # StatusOK) =>
       (error' = "none" /\ pc' \notin {"raised", "post"}
          /\ httpLog' = httpLog /\ payload' = payload)]_vars

\* C17: with force_retry the fetch never ends on a non-success response: it
\* neither returns nor raises while the server has not answered the request
\* with success.
C17_ForcedRetryNeverRaises ==
  (force_retry /\ pc = "raised") => LastRequest.status = StatusOK

\* the records of the success responses to page queries among the first n
\* requests, in the order of the requests
RECURSIVE PageRecords(_)
PageRecords(n) ==
  IF n = 0 THEN <<>>
  ELSE LET r == httpLog[n]
       IN  IF /\ r.caller = "page_query"
              /\ r.status = StatusOK
              /\ "patents" \in DOMAIN r.json
           THEN PageRecords(n - 1) \o r.json["patents"]
           ELSE PageRecords(n - 1)

\* C15: whenever the loop of get_patentsview_data is at its test or has
\* returned, the accumulator is the concatenation of the records of the
\* success responses to the page queries, in page order and in the order of
\* each response.
C15_AccumulatorIsConcatenation ==
  pc \in {"while", "data", "returned"} => data = PageRecords(Len(httpLog))

\* three records appended from two pages
C15_Witness ==
  /\ pc = "data"
  /\ Len(data) = 3
  /\ Cardinality(PageQueries) = 2
  /\ PatentNumbers(data) = <<1, 2, 3>>

\* the requests made for the initial query
ProbeRequests == {i \in 1..Len(httpLog) : httpLog[i].caller = "initial_query"}

\* the initial query has returned its count and the count was accepted
PastInitialQuery ==
  \/ pc \in {"while", "page_query", "data", "returned"}
  \/ pc \in {"post", "response", "raised"} /\ caller = "page_query"

FieldsWithPatentNumber ==
  IF "patent_number" \in Range(caller_fields) THEN caller_fields
  ELSE Append(caller_fields, "patent_number")

\* C18: once the entry point has started, the field list is the caller's
\* list, with patent_number appended when the caller did not list it and
\* unchanged otherwise, and every page query requests that list: it holds
\* patent_number and every field the caller listed.
C18_FieldsOnlyGainPatentNumber ==
  /\ pc # "start" => fields = FieldsWithPatentNumber
  /\ \A i \in PageQueries :
       /\ httpLog[i].payload.f = FieldsWithPatentNumber
       /\ "patent_number" \in Range(httpLog[i].payload.f)
       /\ Range(caller_fields) \subseteq Range(httpLog[i].payload.f)

\* page queries made for a caller whose list lacked patent_number
C18_Witness ==
  /\ pc = "data"
  /\ "patent_number" \notin Range(caller_fields)
  /\ PageQueries # {}
  /\ \A i \in PageQueries :
       httpLog[i].payload.f = Append(caller_fields, "patent_number")

====
